---------------------------- MODULE Spec2Model ----------------------------
(***************************************************************************)
(* Model of yt_server/server.py: the LRU video cache, the failure memory   *)
(* and rate state, the fallback loop and the /download request handler.    *)
(*                                                                         *)
(* Time is time.time() in whole seconds.  File names are pairs             *)
(* <<video_id, title>>: yt-dlp writes TEMP_DIR/{video_id}_{title}.mp4 and  *)
(* add_to_cache moves it to CACHE_DIR under the same name.                 *)
(***************************************************************************)
EXTENDS Integers, Sequences, FiniteSets, TLC

\* ------------------------------------------------------------------ bounds
NumIds == 3
MaxCacheCfg == 2
MaxFailCount == 3
MaxThreads == 3
MaxTime == 1470
MaxSleep == 33
StartTime == 1000

\* ------------------------------------------------------- program constants
FAIL_MEMORY_TIME == 300
WAIT_TIMEOUT == 600
MAX_FAILS_PER_VIDEO == 2

VideoIds == 1..NumIds
Titles == {1, 2}
FileNames == VideoIds \X Titles
\* values MAX_CACHE_SIZE may take from the environment
CacheSizes == 1..MaxCacheCfg

all_formats ==
  << "4K60", "4K", "1080p60", "1080p", "720p60", "720p", "480p", "360p", "worst" >>

VARIABLES
  video_cache,        \* OrderedDict as a sequence, least recently used first
  cache_index,        \* the "videos" list of CACHE_DIR/cache_index.json
  cache_files,        \* names of the files that exist in CACHE_DIR
  temp_files,         \* names of the files that exist in TEMP_DIR
  max_cache_size,     \* MAX_CACHE_SIZE of the running process
  failed_videos,      \* video_id -> [count, last_fail, is_bot]
  last_bot_detection,
  last_download_time,
  active_downloads,   \* video_id -> status
  now,                \* time.time()
  handler,            \* request handler thread -> its position and locals
  ev,                 \* observer: the call made by the last step and its result
  use_order,          \* observer: ids in order of last insert or cache hit
  fail_log,           \* observer: video_id -> times of its failures recorded
                      \* within the last FAIL_MEMORY_TIME seconds
  downloads,          \* download_server: video_id -> status
  threads             \* download_server: the download threads started, each
                      \* with its video_id and position

vars == << video_cache, cache_index, cache_files, temp_files, max_cache_size,
           failed_videos, last_bot_detection, last_download_time,
           active_downloads, now, handler, ev, use_order, fail_log,
           downloads, threads >>

cacheVars == << video_cache, cache_index, cache_files, temp_files, max_cache_size >>
failVars == << failed_videos, last_bot_detection >>
dsVars == << downloads, threads >>
ytVars == << cacheVars, failVars, last_download_time, active_downloads, now,
            handler, use_order, fail_log >>

\* ---------------------------------------------------------------- helpers
Max2(a, b) == IF a >= b THEN a ELSE b

SeqIds(s) == { s[i].id : i \in 1..Len(s) }

Without(s, id) == SelectSeq(s, LAMBDA e : e.id # id)

EntryOf(s, id) == CHOOSE e \in { s[i] : i \in 1..Len(s) } : e.id = id

\* position of id in a sequence of ids, 0 when absent
PosIn(s, id) == IF \E i \in 1..Len(s) : s[i] = id
                THEN CHOOSE i \in 1..Len(s) : s[i] = id
                ELSE 0

\* move_to_end on the observer's list of ids
Touch(s, id) == Append(SelectSeq(s, LAMBDA x : x # id), id)

NoEvent == [op |-> "none"]

\* ------------------------------------------------------------ media cache
\* ("timestamp", the time of insertion, and "size" are only listed by /cache)
CacheEntry(id, name, quality) ==
  [id |-> id, path |-> name, quality |-> quality, filename |-> name]

\* while len(video_cache) > MAX_CACHE_SIZE: popitem(last=False); unlink
RECURSIVE EvictOldest(_, _, _)
EvictOldest(cache, files, max) ==
  IF Len(cache) > max
  THEN EvictOldest(Tail(cache), files \ {Head(cache).path}, max)
  ELSE [cache |-> cache, files |-> files]

add_to_cache_keeps_old(cache, files, max, id, name, quality) ==
  EvictOldest(Append(Without(cache, id), CacheEntry(id, name, quality)),
              files \cup {name}, max)

\* the cache_lock section of add_to_cache up to save_cache_index
add_to_cache(cache, files, max, id, name, quality) ==
  LET had == id \in SeqIds(cache)
      old_path == IF had THEN EntryOf(cache, id).path ELSE name
      files1 == IF had /\ old_path \in files /\ old_path # name
                THEN files \ {old_path} ELSE files
      cache1 == Without(cache, id)
      files2 == files1 \cup {name}
      cache2 == Append(cache1, CacheEntry(id, name, quality))
  IN EvictOldest(cache2, files2, max)

get_from_cache_unpromoted(cache, files, id) ==
  IF id \in SeqIds(cache)
  THEN LET info == EntryOf(cache, id) IN
       IF info.path \in files
       THEN [hit |-> TRUE, info |-> info, cache |-> cache, saved |-> FALSE]
       ELSE [hit |-> FALSE, info |-> info, cache |-> Without(cache, id), saved |-> TRUE]
  ELSE [hit |-> FALSE, info |-> NoEvent, cache |-> cache, saved |-> FALSE]

get_from_cache_to_front(cache, files, id) ==
  IF id \in SeqIds(cache)
  THEN LET info == EntryOf(cache, id) IN
       IF info.path \in files
       THEN [hit |-> TRUE, info |-> info, cache |-> << info >> \o Without(cache, id),
             saved |-> FALSE]
       ELSE [hit |-> FALSE, info |-> info, cache |-> Without(cache, id), saved |-> TRUE]
  ELSE [hit |-> FALSE, info |-> NoEvent, cache |-> cache, saved |-> FALSE]

get_from_cache_keeps_stale(cache, files, id) ==
  IF id \in SeqIds(cache) /\ EntryOf(cache, id).path \in files
  THEN [hit |-> TRUE, info |-> EntryOf(cache, id),
        cache |-> Append(Without(cache, id), EntryOf(cache, id)), saved |-> FALSE]
  ELSE [hit |-> FALSE, info |-> NoEvent, cache |-> cache, saved |-> FALSE]

\* get_from_cache: the entry returned (or "miss") and the index afterwards
get_from_cache(cache, files, id) ==
  IF id \in SeqIds(cache)
  THEN LET info == EntryOf(cache, id) IN
       IF info.path \in files
       THEN [hit |-> TRUE, info |-> info, cache |-> Append(Without(cache, id), info),
             saved |-> FALSE]
       ELSE [hit |-> FALSE, info |-> info, cache |-> Without(cache, id), saved |-> TRUE]
  ELSE [hit |-> FALSE, info |-> NoEvent, cache |-> cache, saved |-> FALSE]

\* save_cache_index: json.dump({"videos": dict(video_cache)}) writes the
\* members of the object in the order of the OrderedDict, key then value
save_cache_index(cache) ==
  [k \in 1..Len(cache) |->
     << cache[k].id, [path |-> cache[k].path, quality |-> cache[k].quality,
                      filename |-> cache[k].filename] >>]

load_cache_index_unchecked(index, files) ==
  [k \in 1..Len(index) |->
     [id |-> index[k][1], path |-> index[k][2].path,
      quality |-> index[k][2].quality, filename |-> index[k][2].filename]]

\* load_cache_index: OrderedDict(data["videos"]) keeps the order of the file;
\* the entries whose file does not exist are popped
load_cache_index(index, files) ==
  LET loaded == [k \in 1..Len(index) |->
                   [id |-> index[k][1], path |-> index[k][2].path,
                    quality |-> index[k][2].quality,
                    filename |-> index[k][2].filename]]
  IN SelectSeq(loaded, LAMBDA e : e.path \in files)


\* ------------------------------------------------- fallback selector
start_index_flat(quality) ==
  CASE quality = "max" -> 0
    [] quality = "1080" -> 2
    [] quality = "720" -> 2
    [] quality = "360" -> 7
    [] OTHER -> 2

start_index(quality) ==
  CASE quality = "max" -> 0
    [] quality = "1080" -> 2
    [] quality = "720" -> 4
    [] quality = "360" -> 7
    [] OTHER -> 2

get_quality_formats(quality) ==
  SubSeq(all_formats, start_index(quality) + 1, Len(all_formats))

ValidQualities == {"max", "1080", "720", "360"}

\* ------------------------------------------------------ failure memory
Expired(info, t) == t - info.last_fail > FAIL_MEMORY_TIME

\* the "Clean old entries" loop of check_video_fail_status
PurgeExpired(fv, t) ==
  [v \in { x \in DOMAIN fv : ~Expired(fv[x], t) } |-> fv[v]]

TooManyFailsStrict(info) == info.count > MAX_FAILS_PER_VIDEO

TooManyFails(info) == info.count >= MAX_FAILS_PER_VIDEO

check_renewing_block(fv, t, id) ==
  LET fv1 == PurgeExpired(fv, t) IN
  IF id \in DOMAIN fv1
  THEN IF TooManyFails(fv1[id])
       THEN [failed |-> [fv1 EXCEPT ![id].count = @ + 1],
             res |-> [blocked |-> TRUE,
                      wait_seconds |-> FAIL_MEMORY_TIME - (t - fv1[id].last_fail),
                      fail_count |-> fv1[id].count]]
       ELSE [failed |-> fv1,
             res |-> [blocked |-> FALSE, wait_seconds |-> 0,
                      fail_count |-> fv1[id].count]]
  ELSE [failed |-> fv1,
        res |-> [blocked |-> FALSE, wait_seconds |-> 0, fail_count |-> 0]]

\* check_video_fail_status: the table after the purge and the dict returned
check_video_fail_status(fv, t, id) ==
  LET fv1 == PurgeExpired(fv, t) IN
  IF id \in DOMAIN fv1
  THEN IF TooManyFails(fv1[id])
       THEN [failed |-> fv1,
             res |-> [blocked |-> TRUE,
                      wait_seconds |-> FAIL_MEMORY_TIME - (t - fv1[id].last_fail),
                      fail_count |-> fv1[id].count]]
       ELSE [failed |-> fv1,
             res |-> [blocked |-> FALSE, wait_seconds |-> 0,
                      fail_count |-> fv1[id].count]]
  ELSE [failed |-> fv1,
        res |-> [blocked |-> FALSE, wait_seconds |-> 0, fail_count |-> 0]]

record_failure_twice(fv, t, id, is_bot) ==
  LET old == IF id \in DOMAIN fv THEN fv[id]
             ELSE [count |-> 0, last_fail |-> 0, is_bot |-> FALSE]
      new == [count |-> old.count + 2, last_fail |-> t,
              is_bot |-> (old.is_bot \/ is_bot)]
  IN [v \in DOMAIN fv \cup {id} |-> IF v = id THEN new ELSE fv[v]]

record_failure_blocking(fv, t, id, is_bot) ==
  LET old == IF id \in DOMAIN fv THEN fv[id]
             ELSE [count |-> 0, last_fail |-> 0, is_bot |-> FALSE]
      new == [count |-> IF is_bot THEN Max2(old.count + 1, MAX_FAILS_PER_VIDEO)
                        ELSE old.count + 1,
              last_fail |-> t, is_bot |-> (old.is_bot \/ is_bot)]
  IN [v \in DOMAIN fv \cup {id} |-> IF v = id THEN new ELSE fv[v]]

\* the failed_lock section of record_video_failure
record_video_failure(fv, t, id, is_bot) ==
  LET old == IF id \in DOMAIN fv THEN fv[id]
             ELSE [count |-> 0, last_fail |-> 0, is_bot |-> FALSE]
      new == [count |-> old.count + 1, last_fail |-> t,
              is_bot |-> (old.is_bot \/ is_bot)]
  IN [v \in DOMAIN fv \cup {id} |-> IF v = id THEN new ELSE fv[v]]

\* failed_videos.pop(video_id, None)
PopKey(f, id) == [v \in DOMAIN f \ {id} |-> f[v]]

\* d[id] = value
SetKey(f, id, value) == [v \in DOMAIN f \cup {id} |-> IF v = id THEN value ELSE f[v]]

ClearFailedKeeps(fv, id) == fv

ClearFailedNonBot(fv, id) ==
  IF id \in DOMAIN fv /\ fv[id].is_bot THEN fv ELSE PopKey(fv, id)

\* add_to_cache, lines 188-190: clear failed status on success
ClearFailed(fv, id) == PopKey(fv, id)

\* observer: the fail_count on record for id, 0 when it has no record
CountOf(fv, id) == IF id \in DOMAIN fv THEN fv[id].count ELSE 0

\* observer: the log when the clock shows t, failures older than the memory
\* window forgotten
LogAt(t) ==
  [v \in VideoIds |-> SelectSeq(fail_log[v], LAMBDA x : t - x <= FAIL_MEMORY_TIME)]

\* observer: number of failures of id recorded within the memory window
RecentFails(id) == Len(fail_log[id])

\* ---------------------------------------------------------------- state
Handlers == {1, 2}

IdleHandler ==
  [pc |-> "idle", id |-> 0, quality |-> "", i |-> 0, path |-> <<0, 0>>,
   label |-> "", from_cache |-> FALSE, error |-> "", wake |-> 0, t0 |-> 0,
   calls |-> << >>, seen |-> << >>, count0 |-> 0, snap |-> NoEvent,
   marker |-> 0, held |-> {}, todo |-> << >>]

Init ==
  /\ video_cache = << >>
  /\ cache_index = << >>
  /\ cache_files = {}
  /\ temp_files = {}
  /\ max_cache_size \in CacheSizes
  /\ failed_videos = << >>
  /\ last_bot_detection = 0
  /\ last_download_time = 0
  /\ active_downloads = << >>
  /\ now = StartTime
  /\ handler = [h \in Handlers |-> IdleHandler]
  /\ ev = NoEvent
  /\ use_order = << >>
  /\ fail_log = [v \in VideoIds |-> << >>]
  /\ downloads = << >>
  /\ threads = << >>

\* --------------------------------------- the cache functions, called alone
\* add_to_cache(id, TEMP_DIR/name, quality) on a freshly fetched file
CacheInsert(id, title, quality) ==
  LET name == <<id, title>>
      r == add_to_cache(video_cache, cache_files, max_cache_size, id, name, quality)
  IN /\ video_cache' = r.cache
     /\ cache_files' = r.files
     /\ cache_index' = save_cache_index(r.cache)
     /\ temp_files' = temp_files \ {name}
     /\ failed_videos' = ClearFailed(failed_videos, id)
     /\ fail_log' = [fail_log EXCEPT ![id] = << >>]
     /\ use_order' = Touch(use_order, id)
     /\ ev' = [op |-> "add_to_cache", id |-> id, name |-> name,
               replaced |-> IF id \in SeqIds(video_cache)
                            THEN {EntryOf(video_cache, id).path} ELSE {},
               deleted |-> cache_files \ r.files,
               evicted |-> (SeqIds(video_cache) \cup {id}) \ SeqIds(r.cache),
               before |-> SeqIds(video_cache),
               held |-> Cardinality(SeqIds(video_cache) \cup {id})]
     /\ UNCHANGED << max_cache_size, last_bot_detection, last_download_time,
                     active_downloads, now, handler, dsVars >>

CacheLookup(id) ==
  LET r == get_from_cache(video_cache, cache_files, id)
  IN /\ video_cache' = r.cache
     /\ cache_index' = IF r.saved THEN save_cache_index(r.cache) ELSE cache_index
     /\ use_order' = IF r.hit THEN Touch(use_order, id) ELSE use_order
     /\ ev' = [op |-> "get_from_cache", id |-> id, hit |-> r.hit,
               saved |-> r.saved, was |-> video_cache, files |-> cache_files,
               info |-> r.info]
     /\ UNCHANGED << cache_files, temp_files, max_cache_size, failVars,
                     last_download_time, active_downloads, now, handler, fail_log,
                     dsVars >>

\* a cached file is deleted from outside the process
FileVanishes(name) ==
  /\ name \in cache_files
  /\ cache_files' = cache_files \ {name}
  /\ ev' = [op |-> "unlink", name |-> name]
  /\ UNCHANGED << video_cache, cache_index, temp_files, max_cache_size, failVars,
                  last_download_time, active_downloads, now, handler, use_order,
                  fail_log, dsVars >>

\* the process is started again with MAX_CACHE_SIZE = size: module globals are
\* initialised and main() calls load_cache_index
ProcessRestart(size) ==
  /\ \A h \in Handlers : handler[h].pc = "idle"
  /\ max_cache_size' = size
  /\ video_cache' = load_cache_index(cache_index, cache_files)
  /\ failed_videos' = << >>
  /\ last_bot_detection' = 0
  /\ last_download_time' = 0
  /\ active_downloads' = << >>
  /\ fail_log' = [v \in VideoIds |-> << >>]
  /\ use_order' = [k \in 1..Len(video_cache') |-> video_cache'[k].id]
  /\ ev' = [op |-> "load_cache_index"]
  /\ UNCHANGED << cache_index, cache_files, temp_files, now, handler, dsVars >>

CacheQualities == {"720p"}

\* the identifiers the cache functions are called with
CacheIds == {1, 2, 3}

NextCache ==
  \/ \E id \in CacheIds, title \in Titles, q \in CacheQualities : CacheInsert(id, title, q)
  \/ \E id \in CacheIds : CacheLookup(id)
  \/ \E name \in FileNames : FileVanishes(name)
  \/ \E size \in CacheSizes : ProcessRestart(size)

SpecCache == Init /\ [][NextCache]_vars

\* ------------------------------- the failure-memory functions, called alone
TickSteps == {150, 160}

\* the identifiers the failure-memory calls are made with
FailIds == {1, 2}

\* observer: the last check, carried over the passing of time
LastCheck ==
  IF ev.op = "check" THEN ev
  ELSE IF ev.op = "tick" THEN ev.last
  ELSE NoEvent

Tick(d) ==
  /\ now + d <= MaxTime
  /\ now' = now + d
  /\ fail_log' = LogAt(now')
  /\ ev' = [op |-> "tick", last |-> LastCheck]
  /\ UNCHANGED << cacheVars, failVars, last_download_time, active_downloads,
                  handler, use_order, dsVars >>

FailCheck(id) ==
  LET r == check_video_fail_status(failed_videos, now, id)
  IN /\ failed_videos' = r.failed
     /\ ev' = [op |-> "check", id |-> id, res |-> r.res, at |-> now,
               prev |-> IF LastCheck.op = "check" /\ LastCheck.id = id
                        THEN [res |-> LastCheck.res, at |-> LastCheck.at]
                        ELSE [res |-> r.res, at |-> now]]
     /\ UNCHANGED << cacheVars, last_bot_detection, last_download_time,
                     active_downloads, now, handler, use_order, fail_log, dsVars >>

FailRecord(id, is_bot) ==
  /\ id \in DOMAIN failed_videos => failed_videos[id].count < MaxFailCount
  /\ Len(fail_log[id]) < MaxFailCount
  /\ failed_videos' = record_video_failure(failed_videos, now, id, is_bot)
  /\ last_bot_detection' = IF is_bot THEN now ELSE last_bot_detection
  /\ fail_log' = [fail_log EXCEPT ![id] = Append(@, now)]
  /\ ev' = [op |-> "record", id |-> id, is_bot |-> is_bot]
  /\ UNCHANGED << cacheVars, last_download_time, active_downloads, now, handler,
                  use_order, dsVars >>

\* the failed_lock section at the end of add_to_cache
FailClear(id) ==
  /\ failed_videos' = ClearFailed(failed_videos, id)
  /\ fail_log' = [fail_log EXCEPT ![id] = << >>]
  /\ ev' = [op |-> "clear", id |-> id]
  /\ UNCHANGED << cacheVars, last_bot_detection, last_download_time,
                  active_downloads, now, handler, use_order, dsVars >>

NextFail ==
  \/ \E d \in TickSteps : Tick(d)
  \/ \E id \in FailIds : FailCheck(id)
  \/ \E id \in FailIds : FailRecord(id, FALSE)
  \/ \E id \in FailIds : FailClear(id)

SpecFail == Init /\ [][NextFail]_vars


\* ------------------------------------------------- the /download handler
\* what the fallback loop reads in the error text of a failed invocation
ErrorTexts == [bot : BOOLEAN, fmt : BOOLEAN]

\* a line of the tool's output: whether it holds block-detection vocabulary,
\* format-rejected vocabulary, the word "error"
OutputLines == [bot : BOOLEAN, fmt : BOOLEAN, err : BOOLEAN]

\* the outputs of a failed invocation: one line of any kind, none at all
\* (timeout, exception, no output file), or a block-detection line without
\* "error" next to a format-rejected error line
ToolOutputs ==
  { {l} : l \in OutputLines } \cup { {} } \cup
  { { [bot |-> TRUE, fmt |-> FALSE, err |-> FALSE],
      [bot |-> FALSE, fmt |-> TRUE, err |-> TRUE] } }

\* outputs whose every line is an error line
ErrorOutputs == { { [bot |-> e.bot, fmt |-> e.fmt, err |-> TRUE] } : e \in ErrorTexts }

\* download_video keeps the lines that contain "error" (lines 395-397); the
\* error text is these lines joined, or "yt-dlp exited with code N" when
\* there is none (line 415)
error_msg(output) ==
  LET error_output == { l \in output : l.err }
  IN [bot |-> \E l \in error_output : l.bot, fmt |-> \E l \in error_output : l.fmt]

is_bot_error(error) == error.bot

\* "403" in error or "forbidden" in error_lower or "format" in error_lower
IsFormatError(error) == error.fmt

\* observer: the outcome of one invocation
Succeeded == [ok |-> TRUE, bot |-> FALSE, fmt |-> FALSE]
Failed(error) == [ok |-> FALSE, bot |-> error.bot, fmt |-> error.fmt]

FilesOf(files, id) == { f \in files : f[1] = id }

\* the locks a handler holds between two steps: every "with" section of the
\* module is one step, except the download_lock section of lines 650-653,
\* which writes the 409 response before it is left
LocksHeld(h) ==
  (IF handler[h].pc = "reject" THEN {"download_lock"} ELSE {}) \cup handler[h].held

\* with download_lock: can be entered
DownloadLockFree == \A g \in Handlers : "download_lock" \notin LocksHeld(g)

\* observer: the shared state as a request finds it
Snapshot ==
  [cache |-> video_cache, index |-> cache_index, failed |-> failed_videos,
   active |-> active_downloads, rate |-> << last_download_time, last_bot_detection >>]

Set(h, fields) ==
  [handler EXCEPT ![h] = [k \in DOMAIN IdleHandler |->
                            IF k \in DOMAIN fields THEN fields[k] ELSE handler[h][k]]]

AfterLookupToGate(hit) == IF hit THEN "stream" ELSE "gate"

\* lines 626-634: a hit goes to stream_file and returns, a miss goes on to the
\* failure check
AfterLookup(hit) == IF hit THEN "stream" ELSE "check_fail"

\* handle_download up to the cache lookup (lines 608-632)
Receive(h, id, quality) ==
  /\ handler[h].pc = "idle"
  /\ IF quality \notin ValidQualities
     THEN /\ ev' = [op |-> "response", h |-> h, id |-> id, status |-> 400]
          /\ UNCHANGED << cacheVars, failVars, last_download_time, active_downloads,
                          now, handler, use_order, fail_log, dsVars >>
     ELSE LET r == get_from_cache(video_cache, cache_files, id) IN
          /\ video_cache' = r.cache
          /\ cache_index' = IF r.saved THEN save_cache_index(r.cache) ELSE cache_index
          /\ use_order' = IF r.hit THEN Touch(use_order, id) ELSE use_order
          /\ handler' = IF r.hit
                        THEN Set(h, [pc |-> AfterLookup(TRUE), id |-> id,
                                     quality |-> quality,
                                     path |-> r.info.path, label |-> r.info.quality,
                                     from_cache |-> TRUE])
                        ELSE Set(h, [pc |-> AfterLookup(FALSE), id |-> id,
                                     quality |-> quality, snap |-> Snapshot])
          /\ ev' = [op |-> "get_from_cache", h |-> h, id |-> id, hit |-> r.hit]
          /\ UNCHANGED << cache_files, temp_files, max_cache_size, failVars,
                          last_download_time, active_downloads, now, fail_log, dsVars >>

\* lines 634-647
CheckFail(h) ==
  LET id == handler[h].id
      r == check_video_fail_status(failed_videos, now, id)
  IN /\ handler[h].pc = "check_fail"
     /\ failed_videos' = r.failed
     /\ handler' = IF r.res.blocked THEN Set(h, IdleHandler)
                   ELSE Set(h, [pc |-> "gate"])
     /\ ev' = IF r.res.blocked
              THEN [op |-> "response", h |-> h, id |-> id, status |-> 429,
                    retry_after |-> r.res.wait_seconds,
                    fail_count |-> r.res.fail_count, snap |-> handler[h].snap,
                    calls |-> handler[h].calls]
              ELSE [op |-> "check_passed", h |-> h, id |-> id]
     /\ UNCHANGED << cacheVars, last_bot_detection, last_download_time,
                     active_downloads, now, use_order, fail_log, dsVars >>

\* lines 649-658: download_lock is taken and the registry tested; the entry is
\* inserted and the lock left, or the 409 branch is entered with the lock held
Gate(h) ==
  LET id == handler[h].id
  IN /\ handler[h].pc = "gate"
     /\ DownloadLockFree
     /\ IF id \in DOMAIN active_downloads
        THEN /\ handler' = Set(h, [pc |-> "reject"])
             /\ ev' = [op |-> "in_progress", h |-> h, id |-> id]
             /\ UNCHANGED active_downloads
        ELSE /\ active_downloads' = SetKey(active_downloads, id, "queued")
             /\ handler' = Set(h, [pc |-> "rate_limit", snap |-> NoEvent])
             /\ ev' = [op |-> "admitted", h |-> h, id |-> id]
     /\ UNCHANGED << cacheVars, failVars, last_download_time, now, use_order,
                     fail_log, dsVars >>

\* lines 652-653: the 409 response is written to the client inside the
\* download_lock section, and the return leaves it
Reject(h) ==
  /\ handler[h].pc = "reject"
  /\ handler' = Set(h, IdleHandler)
  /\ ev' = [op |-> "response", h |-> h, id |-> handler[h].id, status |-> 409,
            snap |-> handler[h].snap]
  /\ UNCHANGED << cacheVars, failVars, last_download_time, active_downloads, now,
                  use_order, fail_log, dsVars >>

\* wait_for_rate_limit, lines 290-300: cooldown is the sampled BOT_COOLDOWN
RateBegin(h, cooldown) ==
  /\ handler[h].pc = "rate_limit"
  /\ IF last_bot_detection > 0 /\ now - last_bot_detection < cooldown
     THEN handler' = Set(h, [pc |-> "cooldown_sleep", t0 |-> now,
                             wake |-> now + (cooldown - (now - last_bot_detection)),
                             marker |-> last_bot_detection])
     ELSE handler' = Set(h, [pc |-> "spacing", t0 |-> now])
  /\ ev' = [op |-> "rate_begin", h |-> h]
  /\ UNCHANGED << cacheVars, failVars, last_download_time, active_downloads, now,
                  use_order, fail_log, dsVars >>

\* time.sleep returns; line 301
CooldownWake(h, until) ==
  /\ handler[h].pc = "cooldown_sleep"
  /\ Max2(now, handler[h].wake) <= until
  /\ now' = Max2(now, handler[h].wake)
  /\ last_bot_detection' = 0
  /\ handler' = Set(h, [pc |-> "spacing", wake |-> 0, marker |-> 0])
  /\ fail_log' = LogAt(now')
  /\ ev' = [op |-> "cooldown_over", h |-> h, seen |-> handler[h].marker,
            erased |-> last_bot_detection]
  /\ UNCHANGED << cacheVars, failed_videos, last_download_time, active_downloads,
                  use_order, dsVars >>

\* lines 303-313: delay is the sampled NORMAL_DELAY
Spacing(h, delay) ==
  /\ handler[h].pc = "spacing"
  /\ IF last_download_time > 0 /\ handler[h].t0 - last_download_time < delay
     THEN /\ handler' = Set(h, [pc |-> "spacing_sleep",
                  wake |-> now + (delay - (handler[h].t0 - last_download_time))])
          /\ UNCHANGED last_download_time
     ELSE /\ handler' = Set(h, [pc |-> "fetch", t0 |-> 0])
          /\ last_download_time' = now
  /\ ev' = [op |-> "spacing", h |-> h, delay |-> delay,
            waited |-> now - handler[h].t0, since |-> now - last_download_time]
  /\ UNCHANGED << cacheVars, failVars, active_downloads, now, use_order, fail_log,
                  dsVars >>

SpacingWake(h, until) ==
  /\ handler[h].pc = "spacing_sleep"
  /\ Max2(now, handler[h].wake) <= until
  /\ now' = Max2(now, handler[h].wake)
  /\ last_download_time' = now'
  /\ handler' = Set(h, [pc |-> "fetch", wake |-> 0, t0 |-> 0])
  /\ fail_log' = LogAt(now')
  /\ ev' = [op |-> "spacing_over", h |-> h]
  /\ UNCHANGED << cacheVars, failVars, active_downloads, use_order, dsVars >>

\* for i, (quality_name, format_string) in enumerate(formats_to_try); t0 is
\* the "started" time of line 360
FormatTriedFirst(formats, i) == formats[1]

FormatTried(formats, i) == formats[i + 1]

\* try_download_with_fallback enters download_video for formats_to_try[i]
\* (lines 451-454, 354-361)
DownloadStart(h) ==
  LET id == handler[h].id
      formats == get_quality_formats(handler[h].quality)
      quality_name == FormatTried(formats, handler[h].i)
  IN /\ handler[h].pc = "fetch"
     /\ DownloadLockFree
     /\ active_downloads' = SetKey(active_downloads, id, "downloading")
     /\ handler' = Set(h, [pc |-> "downloading", label |-> quality_name,
                           calls |-> Append(handler[h].calls, quality_name),
                           t0 |-> now])
     /\ ev' = [op |-> "download_video", h |-> h, id |-> id, quality |-> quality_name,
               prev |-> handler[h].t0]
     /\ UNCHANGED << cacheVars, failVars, last_download_time, now, use_order,
                     fail_log, dsVars >>

\* a "Merging" line of the tool's output (lines 398-405)
Merging(h) ==
  LET id == handler[h].id
  IN /\ handler[h].pc = "downloading"
     /\ DownloadLockFree
     /\ id \in DOMAIN active_downloads
     /\ active_downloads[id] # "merging"
     /\ active_downloads' = SetKey(active_downloads, id, "merging")
     /\ ev' = [op |-> "merging", h |-> h, id |-> id]
     /\ UNCHANGED << cacheVars, failVars, last_download_time, now, handler,
                     use_order, fail_log, dsVars >>

\* the tool writes no line, keeps its output open and does not exit for d
\* seconds: the loop "for line in process.stdout" (line 375) blocks in the
\* read, which has no timeout; process.wait(timeout=600) of line 412 is
\* reached only after the output is closed. The horizon MaxTime ends the
\* exploration of a run after such a silence.
ToolSilent(h, d) ==
  /\ handler[h].pc = "downloading"
  /\ now - handler[h].t0 <= WAIT_TIMEOUT
  /\ now' = now + d
  /\ fail_log' = LogAt(now')
  /\ ev' = [op |-> "silent", h |-> h, id |-> handler[h].id, d |-> d]
  /\ UNCHANGED << cacheVars, failVars, last_download_time, active_downloads,
                  handler, use_order, dsVars >>

\* the tool exits 0 after d seconds having written {id}_{title}.mp4; glob picks
\* one of the identifier's files (lines 412-438, 456-457)
DownloadSucceeds(h, title, pick, d) ==
  LET id == handler[h].id
  IN /\ handler[h].pc = "downloading"
     /\ now + d <= MaxTime
     /\ pick \in FilesOf(temp_files \cup {<<id, title>>}, id)
     /\ temp_files' = temp_files \cup {<<id, title>>}
     /\ now' = now + d
     /\ fail_log' = LogAt(now')
     /\ handler' = Set(h, [pc |-> "add_to_cache", path |-> pick, t0 |-> 0,
                           seen |-> Append(handler[h].seen, Succeeded)])
     /\ ev' = [op |-> "download_end", h |-> h, id |-> id, class |-> "success",
               written |-> <<id, title>>, picked |-> pick]
     /\ UNCHANGED << video_cache, cache_index, cache_files, max_cache_size, failVars,
                     last_download_time, active_downloads, use_order, dsVars >>

ClassifyFormatFirst(error) ==
  IF IsFormatError(error) THEN "format"
  ELSE IF is_bot_error(error) THEN "bot"
  ELSE "other"

\* how try_download_with_fallback classifies a failed invocation
Classify(error) ==
  IF is_bot_error(error) THEN "bot"
  ELSE IF IsFormatError(error) THEN "format"
  ELSE "other"

\* the tool fails after d seconds having written the given output (non-zero
\* exit, no output file, timeout or exception), leaving the file
\* {id}_{partial}.mp4 behind when partial > 0; then lines 459-488
DownloadFails(h, output, partial, d) ==
  LET id == handler[h].id
      error == error_msg(output)
      formats == get_quality_formats(handler[h].quality)
      class == Classify(error)
      left == IF partial > 0 THEN temp_files \cup {<<id, partial>>} ELSE temp_files
      last == handler[h].i + 1 >= Len(formats)
      records == class # "format" \/ last
  IN /\ handler[h].pc = "downloading"
     /\ now + d <= MaxTime
     /\ now' = now + d
     /\ records /\ id \in DOMAIN failed_videos
          => failed_videos[id].count < MaxFailCount
     /\ temp_files' = IF class = "format" THEN left \ FilesOf(left, id) ELSE left
     /\ failed_videos' = IF records
                         THEN record_video_failure(failed_videos, now', id, class = "bot")
                         ELSE failed_videos
     /\ last_bot_detection' = IF class = "bot" THEN now' ELSE last_bot_detection
     /\ fail_log' = IF records
                    THEN [LogAt(now') EXCEPT ![id] = Append(@, now')]
                    ELSE LogAt(now')
     /\ handler' = IF records
                   THEN Set(h, [pc |-> "failed", t0 |-> 0,
                                error |-> IF class = "format" THEN "exhausted"
                                          ELSE class,
                                seen |-> Append(handler[h].seen, Failed(error)),
                                count0 |-> CountOf(failed_videos, id)])
                   ELSE Set(h, [pc |-> "fetch", i |-> handler[h].i + 1,
                                seen |-> Append(handler[h].seen, Failed(error))])
     /\ ev' = [op |-> "download_end", h |-> h, id |-> id, class |-> class,
               error |-> error, output |-> output, marker |-> last_bot_detection,
               count |-> CountOf(failed_videos, id)]
     /\ UNCHANGED << video_cache, cache_index, cache_files, max_cache_size,
                     last_download_time, active_downloads, use_order, dsVars >>

\* lines 667-679: the first pop of the failure path
FailPop(h) ==
  /\ handler[h].pc = "failed"
  /\ DownloadLockFree
  /\ active_downloads' = PopKey(active_downloads, handler[h].id)
  /\ handler' = Set(h, [pc |-> "finally"])
  /\ ev' = [op |-> "fail_pop", h |-> h, id |-> handler[h].id]
  /\ UNCHANGED << cacheVars, failVars, last_download_time, now, use_order, fail_log,
                  dsVars >>

\* lines 684-686: add_to_cache on the fetched file; shutil.move raises when the
\* file is gone, and the except clause answers 500
AddToCache(h) ==
  LET id == handler[h].id
      name == handler[h].path
      r == add_to_cache(video_cache, cache_files, max_cache_size, id, name,
                        handler[h].label)
  IN /\ handler[h].pc = "add_to_cache"
     /\ IF name \in temp_files
        THEN /\ video_cache' = r.cache
             /\ cache_files' = r.files
             /\ cache_index' = save_cache_index(r.cache)
             /\ temp_files' = temp_files \ {name}
             /\ failed_videos' = ClearFailed(failed_videos, id)
             /\ fail_log' = [fail_log EXCEPT ![id] = << >>]
             /\ use_order' = Touch(use_order, id)
             /\ handler' = Set(h, [pc |-> "stream"])
             /\ ev' = [op |-> "add_to_cache", h |-> h, id |-> id,
                       had |-> CountOf(failed_videos, id),
                       evicted |-> (SeqIds(video_cache) \cup {id}) \ SeqIds(r.cache),
                       before |-> SeqIds(video_cache),
                       held |-> Cardinality(SeqIds(video_cache) \cup {id})]
        ELSE /\ handler' = Set(h, [pc |-> "finally"])
             /\ ev' = [op |-> "response", h |-> h, id |-> id, status |-> 500]
             /\ UNCHANGED << video_cache, cache_files, cache_index, temp_files,
                             failed_videos, fail_log, use_order >>
     /\ UNCHANGED << max_cache_size, last_bot_detection, last_download_time,
                     active_downloads, now, dsVars >>

\* stream_file, lines 706-732: stat raises when the file is gone; on the
\* cache-hit path nothing catches it, on the fetch path the except clause does
StreamBegin(h) ==
  LET id == handler[h].id
  IN /\ handler[h].pc = "stream"
     /\ handler[h].path \in cache_files => DownloadLockFree
     /\ IF handler[h].path \in cache_files
        THEN /\ active_downloads' = SetKey(active_downloads, id, "transferring")
             /\ handler' = Set(h, [pc |-> "streaming"])
             /\ ev' = [op |-> "stream_begin", h |-> h, id |-> id,
                       quality |-> handler[h].label,
                       from_cache |-> handler[h].from_cache]
        ELSE /\ handler' = IF handler[h].from_cache THEN Set(h, IdleHandler)
                           ELSE Set(h, [pc |-> "finally"])
             /\ ev' = [op |-> "response", h |-> h, id |-> id, status |-> 500]
             /\ UNCHANGED active_downloads
     /\ UNCHANGED << cacheVars, failVars, last_download_time, now, use_order,
                     fail_log, dsVars >>

\* lines 739-771: the transfer completes, or a write fails.  BrokenPipeError and
\* ConnectionResetError ("disconnect") are caught and stream_file returns; any
\* other error of the write ("write_error": a timeout, ConnectionAbortedError)
\* leaves stream_file as an exception, which the except clause of
\* handle_download catches on the fetch path and nothing in the handler catches
\* on the cache-hit path
StreamEnd(h, how) ==
  /\ handler[h].pc = "streaming"
  /\ handler' = IF handler[h].from_cache THEN Set(h, IdleHandler)
                ELSE Set(h, [pc |-> "finally",
                             error |-> IF how = "complete" THEN handler[h].error
                                       ELSE how])
  /\ ev' = [op |-> "stream_end", h |-> h, id |-> handler[h].id, how |-> how,
            from_cache |-> handler[h].from_cache,
            raised |-> (how = "write_error" /\ handler[h].from_cache)]
  /\ UNCHANGED << cacheVars, failVars, last_download_time, active_downloads, now,
                  use_order, fail_log, dsVars >>

\* lines 699-701
Finally(h) ==
  /\ handler[h].pc = "finally"
  /\ DownloadLockFree
  /\ active_downloads' = PopKey(active_downloads, handler[h].id)
  /\ handler' = Set(h, IdleHandler)
  /\ ev' = [op |-> "request_end", h |-> h, id |-> handler[h].id,
            error |-> handler[h].error, seen |-> handler[h].seen,
            count0 |-> handler[h].count0]
  /\ UNCHANGED << cacheVars, failVars, last_download_time, now, use_order, fail_log,
                  dsVars >>

\* ------------------------------------------------------- specifications
BOT_COOLDOWN_MIN == 30
BOT_COOLDOWN_MAX == 60
NORMAL_DELAY_MIN == 3
NORMAL_DELAY_MAX == 6

Cooldowns == {BOT_COOLDOWN_MIN, BOT_COOLDOWN_MAX}
Delays == {NORMAL_DELAY_MIN, NORMAL_DELAY_MAX}

\* one request handler's steps; "in" holds the sets its inputs are drawn from
\* and the time up to which sleeps are followed
HandlerStep(h, in) ==
  \/ \E id \in in.ids, q \in in.qualities : Receive(h, id, q)
  \/ CheckFail(h)
  \/ Gate(h)
  \/ Reject(h)
  \/ \E c \in in.cooldowns : RateBegin(h, c)
  \/ CooldownWake(h, in.until)
  \/ \E n \in in.delays : Spacing(h, n)
  \/ SpacingWake(h, in.until)
  \/ DownloadStart(h)
  \/ Merging(h)
  \/ \E title \in in.titles, pick \in FileNames, d \in in.durations :
       DownloadSucceeds(h, title, pick, d)
  \/ \E e \in in.outputs, partial \in in.partials, d \in in.durations :
       DownloadFails(h, e, partial, d)
  \/ FailPop(h)
  \/ AddToCache(h)
  \/ StreamBegin(h)
  \/ \E how \in {"complete", "disconnect", "write_error"} : StreamEnd(h, how)
  \/ Finally(h)

\* handlers run as concurrent threads, as the locks provide for
ThreadInputs ==
  [ids |-> {1}, qualities |-> {"360"}, titles |-> {1}, partials |-> {0},
   outputs |-> ErrorOutputs, durations |-> {0},
   cooldowns |-> {BOT_COOLDOWN_MIN}, delays |-> {NORMAL_DELAY_MIN},
   until |-> StartTime + MaxSleep]

Next == \E h \in Handlers : HandlerStep(h, ThreadInputs)

Spec == Init /\ [][Next]_vars

\* main() serves with HTTPServer: one request is handled at a time
SerialInputs ==
  [ids |-> {1}, qualities |-> ValidQualities \cup {"4k"}, titles |-> Titles,
   partials |-> {0} \cup Titles, outputs |-> ToolOutputs, durations |-> {0},
   cooldowns |-> Cooldowns, delays |-> Delays,
   until |-> StartTime + MaxSleep]

\* how long the tool may stay silent
Silences == {WAIT_TIMEOUT + 1}

NextSerial ==
  \/ HandlerStep(1, SerialInputs)
  \/ \E name \in FileNames : FileVanishes(name)
  \/ \E d \in Silences : ToolSilent(1, d)

SpecSerial == Init /\ [][NextSerial]_vars

\* main(), lines 883-889: HTTPServer.serve_forever accepts a connection, runs
\* its handler to the end and only then accepts the next one. Handler 2
\* stands for a second client whose connection waits in the listen queue.
Connect(c) ==
  /\ handler[c].pc = "idle"
  /\ handler' = Set(c, [pc |-> "pending"])
  /\ ev' = [op |-> "connect", h |-> c]
  /\ UNCHANGED << cacheVars, failVars, last_download_time, active_downloads, now,
                  use_order, fail_log, dsVars >>

\* the server loop takes the waiting connection, a status query (do_GET,
\* lines 526-565), and answers it
Serve(c) ==
  /\ handler[c].pc = "pending"
  /\ \A h \in Handlers \ {c} : handler[h].pc = "idle"
  /\ handler' = Set(c, [pc |-> "idle"])
  /\ ev' = [op |-> "status", h |-> c, status |-> 200]
  /\ UNCHANGED << cacheVars, failVars, last_download_time, active_downloads, now,
                  use_order, fail_log, dsVars >>

NextListen ==
  \/ HandlerStep(1, ThreadInputs)
  \/ \E name \in FileNames : FileVanishes(name)
  \/ Connect(2)
  \/ Serve(2)

SpecListen == Init /\ [][NextListen]_vars

\* ------------------------------------------------------- the three locks
\* "with lock:" is an acquire at its entry and a release at its exit
Acq(l) == [do |-> "acquire", lock |-> l]
Rel(l) == [do |-> "release", lock |-> l]

\* the functions and handlers that take locks
LockOps ==
  {"add_to_cache", "get_from_cache", "handle_cache_list",
   "check_video_fail_status", "record_video_failure", "handle_failed_list",
   "download_video", "handle_download", "stream_file", "handle_status"}

LockPathCrossed(op) ==
  CASE op = "add_to_cache" ->
         << Acq("cache_lock"), Acq("failed_lock"), Rel("failed_lock"),
            Rel("cache_lock") >>
    [] op = "record_video_failure" ->
         << Acq("failed_lock"), Acq("cache_lock"), Rel("cache_lock"),
            Rel("failed_lock") >>
    [] OTHER -> << Acq("download_lock"), Rel("download_lock") >>

\* the acquires and releases of each of them, in the order of its code:
\* add_to_cache takes failed_lock inside its cache_lock section (lines 143,
\* 189); handle_status leaves download_lock before it calls get_from_cache and
\* check_video_fail_status (lines 778-783); the download_lock sections of
\* download_video, handle_download and stream_file call nothing that locks
LockPath(op) ==
  CASE op = "add_to_cache" ->
         << Acq("cache_lock"), Acq("failed_lock"), Rel("failed_lock"),
            Rel("cache_lock") >>
    [] op \in {"get_from_cache", "handle_cache_list"} ->
         << Acq("cache_lock"), Rel("cache_lock") >>
    [] op \in {"check_video_fail_status", "record_video_failure",
               "handle_failed_list"} ->
         << Acq("failed_lock"), Rel("failed_lock") >>
    [] op = "handle_status" ->
         << Acq("download_lock"), Rel("download_lock"),
            Acq("cache_lock"), Rel("cache_lock"),
            Acq("failed_lock"), Rel("failed_lock") >>
    [] OTHER -> << Acq("download_lock"), Rel("download_lock") >>

\* observer: the thread of h has acquires or releases left to do
InLockPath(h) == handler[h].pc = "locking" /\ handler[h].todo # << >>

\* observer: the next lock step of h can be taken: a release, or an acquire of
\* a lock nobody holds (threading.Lock is not reentrant)
CanStep(h) ==
  /\ InLockPath(h)
  /\ Head(handler[h].todo).do = "acquire" =>
       \A g \in Handlers : Head(handler[h].todo).lock \notin LocksHeld(g)

\* observer: h is blocked in the acquire of a lock that g holds
WaitsFor(h, g) ==
  /\ InLockPath(h)
  /\ Head(handler[h].todo).do = "acquire"
  /\ Head(handler[h].todo).lock \in LocksHeld(g)

\* a thread calls one of the functions
Enter(h, op) ==
  /\ handler[h].pc = "idle"
  /\ handler' = Set(h, [pc |-> "locking", todo |-> LockPath(op)])
  /\ ev' = [op |-> "enter", h |-> h, name |-> op]
  /\ UNCHANGED << cacheVars, failVars, last_download_time, active_downloads, now,
                  use_order, fail_log, dsVars >>

\* the thread takes its next lock step
LockStep(h) ==
  LET step == Head(handler[h].todo)
  IN /\ CanStep(h)
     /\ handler' = Set(h, [todo |-> Tail(handler[h].todo),
                           held |-> IF step.do = "acquire"
                                    THEN handler[h].held \cup {step.lock}
                                    ELSE handler[h].held \ {step.lock}])
     /\ ev' = [op |-> step.do, h |-> h, lock |-> step.lock]
     /\ UNCHANGED << cacheVars, failVars, last_download_time, active_downloads,
                     now, use_order, fail_log, dsVars >>

\* the function returns
Leave(h) ==
  /\ handler[h].pc = "locking"
  /\ handler[h].todo = << >>
  /\ handler' = Set(h, IdleHandler)
  /\ ev' = [op |-> "leave", h |-> h]
  /\ UNCHANGED << cacheVars, failVars, last_download_time, active_downloads, now,
                  use_order, fail_log, dsVars >>

NextLocks ==
  \E h \in Handlers :
    \/ \E op \in LockOps : Enter(h, op)
    \/ LockStep(h)
    \/ Leave(h)

SpecLocks == Init /\ [][NextLocks]_vars

\* ------------------------------------- download_server: the simple server
\* the identifiers asked for
DsIds == {1, 2}

\* observer: the download threads of id that have started and not finished
Live(id) ==
  { t \in 1..Len(threads) : threads[t].id = id /\ threads[t].pc # "done" }

\* do_GET, path /download (lines 176-199): the status is tested under
\* downloads_lock; unless it is "downloading" or "completed" a thread is
\* started, which the handler does not register
DsDownload(id) ==
  LET status == IF id \in DOMAIN downloads THEN downloads[id] ELSE "none"
  IN /\ IF status \in {"downloading", "completed"}
        THEN /\ ev' = [op |-> "ds_download", id |-> id,
                       message |-> IF status = "downloading"
                                   THEN "Already downloading"
                                   ELSE "Already completed",
                       live |-> Cardinality(Live(id))]
             /\ UNCHANGED threads
        ELSE /\ Len(threads) < MaxThreads
             /\ threads' = Append(threads, [id |-> id, pc |-> "started"])
             /\ ev' = [op |-> "ds_download", id |-> id,
                       message |-> "Download started",
                       live |-> Cardinality(Live(id))]
     /\ UNCHANGED << downloads, ytVars >>

\* download_video, lines 44-52: the thread writes its "downloading" status
DsRegister(t) ==
  /\ t \in 1..Len(threads)
  /\ threads[t].pc = "started"
  /\ threads' = [threads EXCEPT ![t].pc = "running"]
  /\ downloads' = SetKey(downloads, threads[t].id, "downloading")
  /\ ev' = [op |-> "ds_register", id |-> threads[t].id, t |-> t]
  /\ UNCHANGED ytVars

\* download_video, lines 104-136: the tool has ended; the thread writes
\* "completed" or "failed" and ends
DsFinish(t, ok) ==
  /\ t \in 1..Len(threads)
  /\ threads[t].pc = "running"
  /\ threads' = [threads EXCEPT ![t].pc = "done"]
  /\ downloads' = SetKey(downloads, threads[t].id,
                         IF ok THEN "completed" ELSE "failed")
  /\ ev' = [op |-> "ds_finish", id |-> threads[t].id, t |-> t, ok |-> ok]
  /\ UNCHANGED ytVars

NextDs ==
  \/ \E id \in DsIds : DsDownload(id)
  \/ \E t \in 1..MaxThreads : DsRegister(t)
  \/ \E t \in 1..MaxThreads, ok \in BOOLEAN : DsFinish(t, ok)

SpecDs == Init /\ [][NextDs]_vars

\* ------------------------------------------------------------------ claims

\* C1: after every completed cache operation (add_to_cache, get_from_cache,
\* load_cache_index) the index holds at most MAX_CACHE_SIZE entries.
CacheWithinBound ==
  ev.op \in {"add_to_cache", "get_from_cache", "load_cache_index"}
    => Len(video_cache) <= max_cache_size

\* C2: an insert evicts exactly the least recently used entries, as many as are
\* needed to return to MAX_CACHE_SIZE and no more, and never the entry inserted.
EvictsLeastRecentlyUsed ==
  ev.op = "add_to_cache" =>
    /\ Cardinality(ev.evicted) = Max2(0, ev.held - max_cache_size)
    /\ ev.id \notin ev.evicted
    /\ SeqIds(video_cache) = (ev.before \cup {ev.id}) \ ev.evicted
    /\ \A e \in ev.evicted : \A r \in SeqIds(video_cache) :
         PosIn(use_order, e) < PosIn(use_order, r)

\* C2 witness: an insert of a new identifier into a full cache of capacity at
\* least 2 evicted one entry and kept the others.
EvictionHappened ==
  /\ ev.op = "add_to_cache"
  /\ max_cache_size >= 2
  /\ ev.id \notin ev.before
  /\ Cardinality(ev.before) = max_cache_size
  /\ Cardinality(ev.evicted) = 1
  /\ Len(video_cache) = max_cache_size

\* C6: an identifier with MAX_FAILS_PER_VIDEO failures inside the memory window
\* is reported blocked; between two checks with no failure recorded in between
\* the reported wait decreases by the time that passed and the identifier is
\* unblocked only after the wait has run out; with no failure inside the window
\* check reports not blocked and fail_count 0.
BlockedUntilWindowElapses ==
  ev.op = "check" =>
    /\ RecentFails(ev.id) >= MAX_FAILS_PER_VIDEO => ev.res.blocked
    /\ ev.res.blocked => ev.res.wait_seconds >= 0
    /\ (ev.prev.res.blocked /\ ev.res.blocked)
         => ev.res.wait_seconds = ev.prev.res.wait_seconds - (ev.at - ev.prev.at)
    /\ (ev.prev.res.blocked /\ ~ev.res.blocked)
         => ev.at - ev.prev.at > ev.prev.res.wait_seconds
    /\ RecentFails(ev.id) = 0 => (~ev.res.blocked /\ ev.res.fail_count = 0)

\* C6 witness: a second check of a blocked identifier, later than the first,
\* reports a smaller wait.
WaitDecreased ==
  /\ ev.op = "check"
  /\ ev.res.blocked /\ ev.prev.res.blocked
  /\ RecentFails(ev.id) >= MAX_FAILS_PER_VIDEO
  /\ ev.at > ev.prev.at
  /\ ev.res.wait_seconds < ev.prev.res.wait_seconds

\* C7: whenever check reports an identifier blocked, at least
\* MAX_FAILS_PER_VIDEO failures of it were recorded within the last
\* FAIL_MEMORY_TIME seconds.
BlockedOnlyByRecentFails ==
  (ev.op = "check" /\ ev.res.blocked) => RecentFails(ev.id) >= MAX_FAILS_PER_VIDEO

\* observer: the request of handler h has an entry of its own in the registry,
\* from admission or the start of its transfer until its entry is popped
InProgress(h) ==
  \/ handler[h].pc \in {"rate_limit", "cooldown_sleep", "spacing", "spacing_sleep",
                        "fetch", "downloading", "failed", "add_to_cache", "streaming"}
  \/ handler[h].pc = "stream" /\ ~handler[h].from_cache

\* C3: while a request for an identifier is active (queued, fetching, merging
\* or transferring), a second request for it is rejected and not served: no two
\* handlers are in progress on the same identifier.
SecondRequestRejected ==
  \A h1 \in Handlers : \A h2 \in Handlers \ {h1} :
    (InProgress(h1) /\ InProgress(h2)) => handler[h1].id # handler[h2].id

\* C4: at most one external fetch is in flight for any identifier.
OneFetchPerIdentifier ==
  \A h1 \in Handlers : \A h2 \in Handlers \ {h1} :
    (handler[h1].pc = "downloading" /\ handler[h2].pc = "downloading")
      => handler[h1].id # handler[h2].id

\* C5: the registry holds an entry only for an identifier whose request is
\* being processed.
NoEntryWithoutRequest ==
  \A id \in DOMAIN active_downloads :
    \E h \in Handlers : handler[h].pc # "idle" /\ handler[h].id = id

\* observer: what check_video_fail_status would report now
Blocked(id) == check_video_fail_status(failed_videos, now, id).res.blocked

\* C8: a block-detected outcome ends the fallback loop at once, is recorded with
\* is_bot true and sets last_bot_detection to the current time; a failure that
\* is not block-detected leaves last_bot_detection as it was.
BotDetectionAborts ==
  /\ \A h \in Handlers : \A k \in 1..Len(handler[h].seen) :
       is_bot_error(handler[h].seen[k])
         => /\ k = Len(handler[h].seen)
            /\ Len(handler[h].calls) = k
            /\ handler[h].pc \in {"failed", "finally"}
  /\ (ev.op = "download_end" /\ ev.class # "success")
       => IF is_bot_error(ev.error)
          THEN /\ last_bot_detection = now
               /\ ev.id \in DOMAIN failed_videos
               /\ failed_videos[ev.id].is_bot
               /\ failed_videos[ev.id].count = ev.count + 1
          ELSE last_bot_detection = ev.marker

\* C8 witness: the second attempt of a request was block-detected, with text
\* that also reads as a format error, while descriptors were left to try.
BotOnSecondAttempt ==
  \E h \in Handlers :
    /\ handler[h].pc = "failed"
    /\ Len(handler[h].seen) = 2
    /\ handler[h].seen[2] = Failed([bot |-> TRUE, fmt |-> TRUE])
    /\ Len(get_quality_formats(handler[h].quality)) > 2
    /\ last_bot_detection = now

\* C9 as claimed: after a request ends block-detected, check reports its
\* identifier blocked.
BotOutcomeBlocks ==
  (ev.op = "request_end" /\ ev.error = "bot") => Blocked(ev.id)

\* C9 as amended: a block-detected failure counts as one failure; after it is
\* recorded, and when its request ends, check reports the identifier blocked
\* exactly when its fail_count has reached MAX_FAILS_PER_VIDEO.
BotOutcomeCountsOnce ==
  /\ (ev.op = "download_end" /\ ev.class # "success" /\ is_bot_error(ev.error))
       => /\ CountOf(failed_videos, ev.id) = ev.count + 1
          /\ Blocked(ev.id) <=> (ev.count + 1 >= MAX_FAILS_PER_VIDEO)
  /\ (ev.op = "request_end" /\ ev.seen # << >> /\ is_bot_error(ev.seen[Len(ev.seen)]))
       => /\ CountOf(failed_videos, ev.id) = ev.count0 + 1
          /\ Blocked(ev.id) <=> (ev.count0 + 1 >= MAX_FAILS_PER_VIDEO)

\* C9 witness: a request ended block-detected as the first failure of its
\* identifier, which is not blocked.
FirstBotFailureEnded ==
  /\ ev.op = "request_end"
  /\ ev.seen # << >>
  /\ is_bot_error(ev.seen[Len(ev.seen)])
  /\ ev.count0 = 0
  /\ ~Blocked(ev.id)

\* observer: the first k outcomes of h's request were format-rejected and the
\* next one a success
RejectedThenSuccess(h, k) ==
  /\ Len(handler[h].seen) = k + 1
  /\ handler[h].seen[k + 1] = Succeeded
  /\ \A j \in 1..k : handler[h].seen[j] = Failed([bot |-> FALSE, fmt |-> TRUE])

\* C10: when the first k descriptors are format-rejected and the next succeeds,
\* exactly k+1 invocations were made, in table order from the tier's first
\* descriptor, the result carries descriptor k+1's label and the artifact is in
\* the cache under that label before the transfer; for "720" and k = 2 the
\* label is "480p".
FallbackSuccess ==
  \A h \in Handlers : \A k \in 0..Len(all_formats) :
    RejectedThenSuccess(h, k) =>
      LET hs == handler[h]
          first == CHOOSE j \in 1..Len(all_formats) : all_formats[j] = hs.calls[1]
      IN /\ Len(hs.calls) = k + 1
         /\ first + k <= Len(all_formats)
         /\ \A j \in 1..(k + 1) : hs.calls[j] = all_formats[first + j - 1]
         /\ hs.quality = "max" => hs.calls[1] = "4K60"
         /\ hs.quality = "1080" => hs.calls[1] = "1080p60"
         /\ hs.quality = "720" => hs.calls[1] = "720p60"
         /\ hs.quality = "360" => hs.calls[1] = "360p"
         /\ hs.label = hs.calls[k + 1]
         /\ (hs.quality = "720" /\ k = 2) => hs.label = "480p"
         /\ hs.pc \in {"add_to_cache", "stream", "streaming", "finally"}
         /\ hs.pc \in {"stream", "streaming"}
              => /\ hs.id \in SeqIds(video_cache)
                 /\ EntryOf(video_cache, hs.id).quality = hs.label
                 /\ EntryOf(video_cache, hs.id).path = hs.path
                 /\ video_cache[Len(video_cache)].id = hs.id
         /\ (ev.op = "stream_begin" /\ ev.h = h) => ev.quality = hs.label

\* C10 witness: a "720" request is transferring after two format rejections.
ThirdDescriptorServed ==
  \E h \in Handlers :
    /\ RejectedThenSuccess(h, 2)
    /\ handler[h].quality = "720"
    /\ handler[h].pc = "streaming"
    /\ handler[h].label = "480p"

\* observer: s is the part of the table from some offset to its end
IsTableSuffix(s) ==
  /\ Len(s) <= Len(all_formats)
  /\ s = SubSeq(all_formats, Len(all_formats) - Len(s) + 1, Len(all_formats))

\* C11: for each tier get_quality_formats returns a non-empty suffix of the
\* table ending with "worst"; "max" returns the whole table and "1080", "720",
\* "360" start at strictly increasing offsets, so a lower tier's list is a
\* suffix of every higher tier's; each invocation of a request is made with the
\* descriptor of its tier's list at the attempt's position.
QualityListsAreSuffixes ==
  /\ \A q \in ValidQualities :
       LET s == get_quality_formats(q)
       IN /\ Len(s) >= 1
          /\ IsTableSuffix(s)
          /\ s[Len(s)] = "worst"
  /\ get_quality_formats("max") = all_formats
  /\ Len(get_quality_formats("max")) > Len(get_quality_formats("1080"))
  /\ Len(get_quality_formats("1080")) > Len(get_quality_formats("720"))
  /\ Len(get_quality_formats("720")) > Len(get_quality_formats("360"))
  /\ \A h \in Handlers :
       handler[h].pc = "downloading" =>
         LET s == get_quality_formats(handler[h].quality)
             n == Len(handler[h].calls)
         IN /\ n <= Len(s)
            /\ \A j \in 1..n : handler[h].calls[j] = s[j]

\* C11 witness: a "360" request is at its second invocation, made with the
\* baseline descriptor.
BaselineReached ==
  \E h \in Handlers :
    /\ handler[h].pc = "downloading"
    /\ handler[h].quality = "360"
    /\ handler[h].calls = << "360p", "worst" >>

\* C12: after add_to_cache(id, ...) has returned, failed_videos holds no record
\* of id and check reports it not blocked with fail_count 0, whatever failures
\* were on record before.
SuccessClearsFailures ==
  ev.op = "add_to_cache" =>
    /\ ev.id \notin DOMAIN failed_videos
    /\ check_video_fail_status(failed_videos, now, ev.id).res
         = [blocked |-> FALSE, wait_seconds |-> 0, fail_count |-> 0]

\* C12 witness: add_to_cache returned for an identifier that had a failure on
\* record.
ClearedAfterFailure ==
  /\ ev.op = "add_to_cache"
  /\ ev.had >= 1
  /\ ev.id \notin DOMAIN failed_videos

\* C13: when try_download_with_fallback has returned a failure, no temp file of
\* the identifier is left, and a successful invocation returns the file it
\* wrote, never one left by an earlier attempt.
FailureLeavesNoArtifact ==
  /\ \A h \in Handlers :
       handler[h].pc = "failed" => FilesOf(temp_files, handler[h].id) = {}
  /\ (ev.op = "download_end" /\ ev.class = "success") => ev.picked = ev.written

BlockedRequestMakesNoAttempt ==
  (ev.op = "response" /\ ev.status = 429) =>
    /\ ev.calls = << >>
    /\ handler[ev.h].pc = "idle"
    /\ active_downloads = ev.snap.active
    /\ << last_download_time, last_bot_detection >> = ev.snap.rate
    /\ ev.id \in DOMAIN ev.snap.failed
    /\ ev.id \in DOMAIN failed_videos
    /\ failed_videos[ev.id] = ev.snap.failed[ev.id]
    /\ ev.fail_count = failed_videos[ev.id].count
    /\ ev.fail_count >= MAX_FAILS_PER_VIDEO
    /\ ev.retry_after = FAIL_MEMORY_TIME - (now - failed_videos[ev.id].last_fail)
    /\ ev.retry_after >= 0

\* C15 witness: a request was answered 429 for an identifier with two failures
\* on record, with time of the window left to wait.
BlockedRequestRejected ==
  /\ ev.op = "response" /\ ev.status = 429
  /\ ev.fail_count = MAX_FAILS_PER_VIDEO
  /\ ev.retry_after > 0
  /\ ev.id \notin DOMAIN active_downloads

\* C16: a transfer ended by a write failure, on either path and whatever the
\* failure, raises nothing out of the handler; once its request is over the
\* registry holds no entry of the identifier, and the cache entry is intact.
DisconnectCleansUp ==
  /\ (ev.op = "stream_end" /\ ev.how # "complete") =>
       /\ ~ev.raised
       /\ ev.id \in SeqIds(video_cache)
       /\ handler[ev.h].pc = "idle" => ev.id \notin DOMAIN active_downloads
  /\ (ev.op = "request_end" /\ ev.error \in {"disconnect", "write_error"}) =>
       /\ ev.id \notin DOMAIN active_downloads
       /\ ev.id \in SeqIds(video_cache)

\* observer: handler h is in a time.sleep of wait_for_rate_limit, waits for the
\* external tool, or writes to its client (the transfer, the 409 response)
Blocking(h) ==
  handler[h].pc \in {"cooldown_sleep", "spacing_sleep", "downloading", "streaming",
                     "reject"}

\* C17: a handler that sleeps, runs the external tool or writes to its client
\* holds no lock.
NoLockWhileBlocking ==
  \A h \in Handlers : Blocking(h) => LocksHeld(h) = {}

\* C18: after each insert and each lookup the index file holds the entries of
\* the in-memory index in the same order.
PersistedAfterEveryMutation ==
  ev.op \in {"add_to_cache", "get_from_cache"}
    => cache_index = save_cache_index(video_cache)

\* observer: the entries of the in-memory index whose file exists
WithFile(cache) == SelectSeq(cache, LAMBDA e : e.path \in cache_files)

LookupPromotesOrPurges ==
  ev.op = "get_from_cache" =>
    LET indexed == ev.id \in SeqIds(ev.was)
        present == indexed /\ EntryOf(ev.was, ev.id).path \in ev.files
    IN /\ ev.hit <=> present
       /\ ev.hit =>
            /\ ev.info = EntryOf(ev.was, ev.id)
            /\ Len(video_cache) = Len(ev.was)
            /\ video_cache[Len(video_cache)] = ev.info
            /\ Without(video_cache, ev.id) = Without(ev.was, ev.id)
       /\ (indexed /\ ~present) =>
            /\ ev.id \notin SeqIds(video_cache)
            /\ video_cache = Without(ev.was, ev.id)
       /\ ~indexed => video_cache = ev.was

\* C20 witness: a hit on the least recently used of two entries.
OldestPromoted ==
  /\ ev.op = "get_from_cache"
  /\ ev.hit
  /\ Len(ev.was) >= 2
  /\ ev.was[1].id = ev.id
  /\ video_cache[1].id # ev.id

\* C21: after add_to_cache the index holds exactly one entry of the identifier,
\* the last one, with the new path, whose file exists; the file of an entry it
\* replaced is deleted when its path differs from the new one; every file
\* deleted belonged to the replaced entry or to an evicted one.
InsertReplaces ==
  ev.op = "add_to_cache" =>
    LET evicted == { f \in FileNames : f[1] \in ev.evicted }
    IN /\ Cardinality({ k \in 1..Len(video_cache) : video_cache[k].id = ev.id }) = 1
       /\ video_cache[Len(video_cache)].id = ev.id
       /\ video_cache[Len(video_cache)].path = ev.name
       /\ ev.name \in cache_files
       /\ \A p \in ev.replaced : p # ev.name => p \notin cache_files
       /\ ev.deleted \subseteq (ev.replaced \cup evicted)
       /\ ev.deleted \cap cache_files = {}

\* C21 witness: an insert replaced an entry whose file existed under another
\* name, and deleted that file.
ReplacedUnderNewName ==
  /\ ev.op = "add_to_cache"
  /\ ev.replaced # {}
  /\ ev.name \notin ev.replaced
  /\ ev.deleted = ev.replaced
  /\ Len(video_cache) >= 2

\* C22: when the cooldown sleep of wait_for_rate_limit is over, at least the
\* minimum cooldown has passed since the block event the caller had seen, and
\* the marker it clears is that of this event (or one already cleared), not
\* of an event recorded while it slept.
CooldownKeepsNewerEvents ==
  ev.op = "cooldown_over" =>
    /\ now - ev.seen >= BOT_COOLDOWN_MIN
    /\ ev.erased \in {0, ev.seen}

\* C23: after a cooldown sleep, the spacing check of wait_for_rate_limit adds
\* no sleep when the time since the last fetch, the cooldown sleep included,
\* already reaches the sampled normal delay.
CooldownSupersedesSpacing ==
  (ev.op = "spacing" /\ ev.waited > 0 /\ ev.since >= ev.delay) =>
    handler[ev.h].pc = "fetch"

\* C24: an invocation of the external tool that follows another one of the
\* same request starts at least NORMAL_DELAY_MIN seconds after it.
SuccessiveInvocationsSpaced ==
  (ev.op = "download_video" /\ ev.prev > 0) =>
    now - ev.prev >= NORMAL_DELAY_MIN

\* C25: no invocation of the external tool is still running more than the
\* 10-minute timeout after it started.
InvocationEndsInTime ==
  \A h \in Handlers :
    handler[h].pc = "downloading" => now - handler[h].t0 <= WAIT_TIMEOUT

\* C26: a failed invocation whose output holds block-detection vocabulary in
\* any line is classified as block-detected, whether or not that line holds
\* the word "error" and whether or not the output also holds format-rejected
\* vocabulary.
BotVocabularyWins ==
  (ev.op = "download_end" /\ ev.class # "success"
     /\ \E l \in ev.output : l.bot) => ev.class = "bot"

\* C27: a client whose connection waits is served without waiting for the
\* request in progress: the server can take its connection in every state,
\* also while the handler of the other request sleeps or waits for the tool.
ServedWhileOthersWait ==
  \A c \in Handlers :
    (handler[c].pc = "pending" /\ \E h \in Handlers : Blocking(h)) => ENABLED Serve(c)

\* C28: a failed invocation after which the loop tries another descriptor
\* records no failure; the failed invocation that ends the loop (block
\* detected, other failure, or format-rejected on the last descriptor) raises
\* the identifier's fail_count by exactly one, and the count is still the one
\* before that failure plus one when the request ends.
FailureRecordedOnce ==
  /\ (ev.op = "download_end" /\ ev.class # "success") =>
       IF handler[ev.h].pc = "fetch"
       THEN /\ ev.class = "format"
            /\ CountOf(failed_videos, ev.id) = ev.count
       ELSE /\ handler[ev.h].pc = "failed"
            /\ CountOf(failed_videos, ev.id) = ev.count + 1
  /\ (ev.op = "request_end" /\ ev.error \in {"bot", "other", "exhausted"}) =>
       CountOf(failed_videos, ev.id) = ev.count0 + 1

\* C28 witness: a request ended with every descriptor format-rejected, after
\* two or more invocations, for an identifier that had failed before.
ExhaustedCountedOnce ==
  /\ ev.op = "request_end"
  /\ ev.error = "exhausted"
  /\ Len(ev.seen) >= 2
  /\ ev.count0 >= 1
  /\ CountOf(failed_videos, ev.id) = ev.count0 + 1

\* the stage of handle_download a handler is in, in the order of the claim:
\* lookup, failure memory, gate, rate controller, fallback loop, insert,
\* transfer
Stage(pc) ==
  CASE pc = "idle" -> 0
    [] pc = "check_fail" -> 1
    [] pc \in {"gate", "reject"} -> 2
    [] pc \in {"rate_limit", "cooldown_sleep", "spacing", "spacing_sleep"} -> 3
    [] pc \in {"fetch", "downloading", "failed"} -> 4
    [] pc = "add_to_cache" -> 5
    [] pc \in {"stream", "streaming"} -> 6
    [] OTHER -> 7

\* C29: a request begins with the cache lookup. After a hit the handler goes
\* to the transfer, and no step of it changes the failure table, the rate
\* controller's times or the files, nor invokes the tool. After a miss the
\* handler passes the stages failure memory, gate, rate controller, fallback
\* loop, insert, transfer in this order, leaving out none, until the request
\* ends.
RequestOrder ==
  [][\A h \in Handlers :
       handler'[h] # handler[h] =>
         /\ handler'[h].pc \in {"idle", "finally"}
            \/ Stage(handler'[h].pc) = Stage(handler[h].pc)
            \/ Stage(handler'[h].pc) = Stage(handler[h].pc) + 1
            \/ /\ handler[h].pc = "idle"
               /\ handler'[h].from_cache
               /\ handler'[h].pc = "stream"
         /\ (handler[h].pc = "idle" /\ ~handler'[h].from_cache) =>
              handler'[h].pc \in {"idle", "check_fail"}
         /\ (handler[h].from_cache \/ handler'[h].from_cache) =>
              /\ handler'[h].pc \in {"stream", "streaming", "idle"}
              /\ handler'[h].calls = << >>
              /\ UNCHANGED << failVars, last_download_time, cache_files, temp_files >>
    ]_vars

\* C29 witness: a hit is being transferred less than the minimum spacing after
\* the last fetch, for which the rate controller would have slept.
HitStreamedAtOnce ==
  \E h \in Handlers :
    /\ handler[h].pc = "streaming"
    /\ handler[h].from_cache
    /\ handler[h].calls = << >>
    /\ last_download_time > 0
    /\ now - last_download_time < NORMAL_DELAY_MIN

LocksCannotDeadlock ==
  /\ \A h \in Handlers :
       LocksHeld(h) \in { {}, {"cache_lock"}, {"failed_lock"}, {"download_lock"},
                          {"cache_lock", "failed_lock"} }
  /\ \A h \in Handlers :
       (InLockPath(h) /\ Head(handler[h].todo).do = "acquire"
          /\ LocksHeld(h) # {}) =>
         /\ LocksHeld(h) = {"cache_lock"}
         /\ Head(handler[h].todo).lock = "failed_lock"
  /\ \A h, g \in Handlers : WaitsFor(h, g) => (g # h /\ CanStep(g))

\* C31 witness: inside add_to_cache a thread holds cache_lock and waits for
\* failed_lock, which another thread holds.
NestedAcquisitionWaits ==
  \E h, g \in Handlers :
    /\ h # g
    /\ WaitsFor(h, g)
    /\ LocksHeld(h) = {"cache_lock"}
    /\ LocksHeld(g) = {"failed_lock"}

\* C32: in download_server at most one download thread of an identifier has
\* started and not finished, and a /download request for an identifier that
\* has such a thread is answered "Already downloading".
OneThreadPerId ==
  /\ \A id \in DsIds : Cardinality(Live(id)) <= 1
  /\ (ev.op = "ds_download" /\ ev.live >= 1) => ev.message = "Already downloading"

==========================================================================
